---- MODULE Spec2Model ----
(***************************************************************************)
(* Model of ipyida/kernel.py: the IPython kernel embedded in IDA.          *)
(*                                                                         *)
(* Process-wide state (sys.stdout, sys.stderr, sys.excepthook,             *)
(* sys.displayhook), the IPKernelApp singleton, IDA's timer scheduler and  *)
(* the IPythonKernel controllers.  Everything runs on IDA's main thread:   *)
(* pc is the position of the one call in flight.                           *)
(***************************************************************************)
EXTENDS Integers, Sequences, FiniteSets

\* ------------------------------------------------------------------ bounds

\* Number of IPythonKernel instances constructed in the process.
NumControllers == 2

Controllers == 1..NumControllers
\* The timer objects IDA hands out: one more than can be held at a time.
Handles == 1..(NumControllers + 1)

\* ----------------------------------------------------------------- values

None == "None"
\* self._timer = None; the handles register_timer returns are 1, 2, ...
NoTimer == 0

\* Strings written through a stream.
Strings == {"a", "b"}
\* The text start() prints.
Banner == "[ipyida] IPython Kernel initialized!"
\* Positional arguments a hook is invoked with.
HookArgs == {"(x, y)", "(z)"}
\* Values of app.kernel._poll_interval, in microseconds (0.05 s, 0.0025 s).
PollIntervals == {50000, 2500}
\* Values of os.environ.get("JUPYTER_CONNECTION", None).
EnvConnections == {None, "env.json"}
\* The connection file the engine allocates when none is supplied.
FreshConnection == "kernel-fresh.json"

VARIABLES
    ipykernel5,         \* is_using_ipykernel_5(): fixed for the process
    _poll_interval,     \* app.kernel._poll_interval (microseconds)
    JUPYTER_CONNECTION, \* the environment variable at construction
    _ida_stdout,        \* saved at module load: "ida_stdout" or None
    _ida_stderr,        \* saved at module load: "ida_stderr" or None
    _ida_closed,        \* the host sinks that have gone stale: write raises
    sys_stdout,         \* the active sys.stdout
    sys_stderr,         \* the active sys.stderr
    sys_main,           \* the module registered in sys.modules as the main module
    ida_ios,            \* the local of _setup_stream_redirects, <<>> outside it
    sys_excepthook,     \* the active hook: its callees, in call order
    sys_displayhook,
    app_initialized,    \* IPKernelApp.initialized()
    app_connection_file,\* app.connection_file (None before initialize)
    _timer,             \* [Controllers -> handle or NoTimer]
    connection_file,    \* [Controllers -> string or None]
    timers,             \* IDA's scheduler: the set of <<handle, interval ms>>
    callback,           \* the timer whose callback is running, or NoTimer
    pc,                 \* the call in flight on the main thread
    last,               \* the call that is in flight or returned last
    events,             \* what that call did, in order
    pre,                \* the state that call was entered in
    running             \* history: started successfully and not stopped since

consts == <<ipykernel5, _poll_interval, JUPYTER_CONNECTION, _ida_stdout, _ida_stderr>>
streams == <<sys_stdout, sys_stderr>>
modules == <<sys_main, ida_ios>>
hooks == <<sys_excepthook, sys_displayhook>>
engine == <<app_initialized, app_connection_file>>
controller == <<_timer, connection_file>>
history == <<last, events, pre, running>>
vars == <<consts, _ida_closed, streams, modules, hooks, engine, controller, timers, callback, pc, history>>

\* One thing a call did: a write, a callee invoked, an engine or scheduler call.
Ev(k, to, s, h, n) == [k |-> k, to |-> to, s |-> s, h |-> h, n |-> n]

Idle == [op |-> "idle", c |-> 0, at |-> "idle"]
At(op, c, at) == [op |-> op, c |-> c, at |-> at]

\* The state a call is entered in, for "leaves ... as it was".
Snapshot ==
    [ _timer |-> _timer, connection_file |-> connection_file,
      sys_stdout |-> sys_stdout, sys_stderr |-> sys_stderr,
      sys_excepthook |-> sys_excepthook, sys_displayhook |-> sys_displayhook,
      timers |-> timers, app_initialized |-> app_initialized,
      app_connection_file |-> app_connection_file,
      _ida_closed |-> _ida_closed, running |-> running, callback |-> callback,
      sys_main |-> sys_main ]

\* A call: the operation, the controller (0: none), what it was given.
Last(op, c, to, s, raised) == [op |-> op, c |-> c, to |-> to, s |-> s, raised |-> raised]

\* A call is entered: nothing done yet.
Enter(op, c, to, s) ==
    /\ last' = Last(op, c, to, s, None)
    /\ events' = <<>>
    /\ pre' = Snapshot

\* The call in flight raises msg, or returns (msg = None), having done evs.
Return(evs, msg) ==
    /\ last' = [last EXCEPT !.raised = msg]
    /\ events' = events \o evs
    /\ pre' = pre
    /\ pc' = Idle

\* The call in flight goes on to its next step, having done evs.
Goto(evs, at) ==
    /\ last' = last
    /\ events' = events \o evs
    /\ pre' = pre
    /\ pc' = [pc EXCEPT !.at = at]

\* ------------------------------------------------------------- module load

Init ==
    /\ ipykernel5 \in BOOLEAN
    /\ _poll_interval \in PollIntervals
    /\ JUPYTER_CONNECTION \in EnvConnections
    /\ _ida_stdout \in {None, "ida_stdout"}
    /\ _ida_stderr \in {None, "ida_stderr"}
    /\ _ida_closed = {}
    /\ sys_stdout = _ida_stdout
    /\ sys_stderr = _ida_stderr
    /\ sys_main \in {None, "ida_main"}
    /\ ida_ios = <<>>
    /\ sys_excepthook = <<"_ida_excepthook">>
    /\ sys_displayhook = <<"_ida_displayhook">>
    /\ app_initialized = FALSE
    /\ app_connection_file = None
    /\ _timer = [c \in Controllers |-> NoTimer]
    /\ connection_file = [c \in Controllers |-> JUPYTER_CONNECTION]
    /\ timers = {}
    /\ callback = NoTimer
    /\ pc = Idle
    /\ last = Last("load", 0, None, None, None)
    /\ events = <<>>
    /\ running = [c \in Controllers |-> FALSE]
    /\ pre = Snapshot

\* ------------------------------------------------------------- Stream Tee

\* The client-facing (zmq) path of an OutStream.
Client(name) == IF name = "stdout" THEN "zmq_stdout" ELSE "zmq_stderr"

\* What a write did and whether it raised.
Wrote(evs, raised) == [ev |-> evs, raised |-> raised]

\* A write on a host console sink: raises once the sink has gone stale.
ida_write(sink, string) ==
    IF sink \in _ida_closed
    THEN Wrote(<<>>, TRUE)
    ELSE Wrote(<<Ev("write", sink, string, 0, 0)>>, FALSE)

\* IDATeeOutStream.write with the two destinations in the other order.
IDATeeOutStream_write_zmq_first(name, string) ==
    LET host == IF name = "stdout" /\ _ida_stdout # None THEN ida_write(_ida_stdout, string)
                ELSE IF name = "stderr" /\ _ida_stderr # None THEN ida_write(_ida_stderr, string)
                ELSE Wrote(<<>>, FALSE)
    IN  Wrote(<<Ev("write", Client(name), string, 0, 0)>> \o host.ev, host.raised)

\* IDATeeOutStream.write: the saved IDA sink of this name, then zmq's stream.
IDATeeOutStream_write(name, string) ==
    LET host == IF name = "stdout" /\ _ida_stdout # None THEN ida_write(_ida_stdout, string)
                ELSE IF name = "stderr" /\ _ida_stderr # None THEN ida_write(_ida_stderr, string)
                ELSE Wrote(<<>>, FALSE)
    IN  IF host.raised
        THEN host
        ELSE Wrote(host.ev \o <<Ev("write", Client(name), string, 0, 0)>>, FALSE)

\* stream.write(string) for whatever object is the active stream.
stream_write(stream, string) ==
    IF stream = None THEN Wrote(<<>>, FALSE)
    ELSE IF stream = "tee_stdout" THEN IDATeeOutStream_write("stdout", string)
    ELSE IF stream = "tee_stderr" THEN IDATeeOutStream_write("stderr", string)
    ELSE ida_write(stream, string)

\* _setup_stream_redirects, lines 64-66: the active streams are kept aside and
\* the ones __main__ saved before IDAPython replaced them put in their place.
SetupRedirectsCall(name) ==
    /\ pc = Idle
    /\ callback = NoTimer
    /\ Enter("_setup_stream_redirects", 0, name, None)
    /\ ida_ios' = <<sys_stdout, sys_stderr>>
    /\ sys_stdout' = "_orig_stdout"
    /\ sys_stderr' = "_orig_stderr"
    /\ pc' = At("_setup_stream_redirects", 0, "super")
    /\ UNCHANGED <<consts, _ida_closed, sys_main, hooks, engine, controller, timers, running, callback>>

\* The end of _setup_stream_redirects putting the streams back only when
\* OutStream's method returns.
SetupRedirectsSuper_no_finally(raises) ==
    /\ pc = At("_setup_stream_redirects", 0, "super")
    /\ sys_stdout' = IF raises THEN sys_stdout ELSE ida_ios[1]
    /\ sys_stderr' = IF raises THEN sys_stderr ELSE ida_ios[2]
    /\ ida_ios' = <<>>
    /\ Return(<<Ev("_setup_stream_redirects", sys_stdout, sys_stderr, 0, 0)>>,
              IF raises THEN "_setup_stream_redirects raised" ELSE None)
    /\ UNCHANGED <<consts, _ida_closed, sys_main, hooks, engine, controller, timers, running, callback>>

\* _setup_stream_redirects, lines 67-69: OutStream's method runs, and returns
\* or raises; the streams kept aside are put back either way.
SetupRedirectsSuper(raises) ==
    /\ pc = At("_setup_stream_redirects", 0, "super")
    /\ sys_stdout' = ida_ios[1]
    /\ sys_stderr' = ida_ios[2]
    /\ ida_ios' = <<>>
    /\ Return(<<Ev("_setup_stream_redirects", sys_stdout, sys_stderr, 0, 0)>>,
              IF raises THEN "_setup_stream_redirects raised" ELSE None)
    /\ UNCHANGED <<consts, _ida_closed, sys_main, hooks, engine, controller, timers, running, callback>>

\* A write through the Stream Tee of one role, by the engine or by print.
TeeWrite(name, string) ==
    /\ pc = Idle
    /\ callback = NoTimer
    /\ app_initialized
    /\ LET w == IDATeeOutStream_write(name, string)
       IN  /\ last' = Last("write", 0, name, string,
                           IF w.raised THEN "I/O operation on closed file" ELSE None)
           /\ events' = w.ev
    /\ pre' = Snapshot
    /\ UNCHANGED <<consts, modules, _ida_closed, streams, hooks, engine, controller, timers, pc, running, callback>>

\* The host console behind a saved sink goes away: the sink is stale.
CloseSink(sink) ==
    /\ pc = Idle
    /\ callback = NoTimer
    /\ sink \in {_ida_stdout, _ida_stderr} \ {None}
    /\ sink \notin _ida_closed
    /\ _ida_closed' = _ida_closed \cup {sink}
    /\ Enter("close", 0, sink, None)
    /\ UNCHANGED <<consts, modules, streams, hooks, engine, controller, timers, pc, running, callback>>

\* -------------------------------------------------------------- Hook Chain

\* wrap_excepthook: IDA's saved hook, then the one being wrapped.
wrap_excepthook(ipython_excepthook) == <<"_ida_excepthook">> \o ipython_excepthook

\* wrap_displayhook: IDA's saved hook, then the one being wrapped.
wrap_displayhook(ipython_displayhook) == <<"_ida_displayhook">> \o ipython_displayhook

\* Calling a hook: its callees in order, up to and including the first that raises.
call_hook(hook, args, raisers) ==
    LET bad == {i \in 1..Len(hook) : hook[i] \in raisers}
        stop == IF bad = {} THEN Len(hook)
                ELSE CHOOSE i \in bad : \A j \in bad : i <= j
    IN  Wrote([i \in 1..stop |-> Ev("call", hook[i], args, 0, 0)], bad # {})

\* The interpreter reports an exception through sys.excepthook.
ExceptHook(args, hostRaises) ==
    /\ pc = Idle
    /\ callback = NoTimer
    /\ LET r == call_hook(sys_excepthook, args,
                          IF hostRaises THEN {"_ida_excepthook"} ELSE {})
       IN  /\ last' = Last("excepthook", 0, None, args,
                           IF r.raised THEN "hook raised" ELSE None)
           /\ events' = r.ev
    /\ pre' = Snapshot
    /\ UNCHANGED <<consts, modules, _ida_closed, streams, hooks, engine, controller, timers, pc, running, callback>>

\* The interpreter displays a result through sys.displayhook.
DisplayHook(args, hostRaises) ==
    /\ pc = Idle
    /\ callback = NoTimer
    /\ LET r == call_hook(sys_displayhook, args,
                          IF hostRaises THEN {"_ida_displayhook"} ELSE {})
       IN  /\ last' = Last("displayhook", 0, None, args,
                           IF r.raised THEN "hook raised" ELSE None)
           /\ events' = r.ev
    /\ pre' = Snapshot
    /\ UNCHANGED <<consts, modules, _ida_closed, streams, hooks, engine, controller, timers, pc, running, callback>>

\* --------------------------------------------------------- IDA's scheduler

\* The timer objects something refers to: the scheduler, a controller or the
\* callback that is running.
LiveHandles == {t[1] : t \in timers} \cup {_timer[c] : c \in Controllers} \cup {callback}

\* The timer object a register_timer call returns: one nobody refers to.
NewHandle ==
    CHOOSE h \in Handles :
        /\ h \notin LiveHandles
        /\ \A g \in Handles : g \notin LiveHandles => h <= g

\* idaapi.register_timer(interval, callback): the scheduler afterwards.
register_timer(interval, h) == timers \cup {<<h, interval>>}

\* idaapi.unregister_timer(h): the scheduler afterwards.
unregister_timer(h) == {t \in timers : t[1] # h}

\* int(1000 * app.kernel._poll_interval): truncated to whole milliseconds.
poll_ms == (1000 * _poll_interval) \div 1000000

\* -------------------------------------------------------- IPythonKernel

\* IPythonKernel.started
started(c) == _timer[c] # NoTimer

\* start(), lines 105-107: the guard.
StartCall(c) ==
    /\ pc = Idle
    /\ Enter("start", c, None, None)
    /\ IF _timer[c] # NoTimer
       THEN /\ last' = Last("start", c, None, None, "IPython kernel is already running.")
            /\ pc' = Idle
       ELSE /\ last' = Last("start", c, None, None, None)
            /\ pc' = At("start", c, "engine")
    /\ UNCHANGED <<consts, modules, _ida_closed, streams, hooks, engine, controller, timers, running, callback>>

\* The engine step of start() wrapping the hooks on every start, not only when
\* the IPKernelApp singleton is created.
StartEngine_rewraps(c) ==
    /\ pc = At("start", c, "engine")
    /\ IF app_initialized
       THEN /\ UNCHANGED <<streams, sys_main, engine>>
            /\ sys_excepthook' = wrap_excepthook(sys_excepthook)
            /\ sys_displayhook' = wrap_displayhook(sys_displayhook)
            /\ Goto(<<>>, "kernel")
       ELSE /\ app_initialized' = TRUE
            /\ sys_main' = IF sys_main # None THEN sys_main ELSE "ipython_main"
            /\ app_connection_file' =
                  IF connection_file[c] # None THEN connection_file[c] ELSE FreshConnection
            /\ sys_stdout' = "tee_stdout"
            /\ sys_stderr' = "tee_stderr"
            /\ sys_excepthook' = wrap_excepthook(<<"ipython_excepthook">>)
            /\ sys_displayhook' = wrap_displayhook(<<"ipython_displayhook">>)
            /\ Goto(<<Ev("initialize", "app", connection_file[c], 0, 0)>>, "kernel")
    /\ UNCHANGED <<consts, ida_ios, _ida_closed, controller, timers, running, callback>>

\* The engine step of start() leaving IPython's main module registered.
StartEngine_no_main_restore(c) ==
    /\ pc = At("start", c, "engine")
    /\ IF app_initialized
       THEN /\ UNCHANGED <<streams, sys_main, hooks, engine>>
            /\ Goto(<<>>, "kernel")
       ELSE /\ app_initialized' = TRUE
            /\ sys_main' = "ipython_main"
            /\ app_connection_file' =
                  IF connection_file[c] # None THEN connection_file[c] ELSE FreshConnection
            /\ sys_stdout' = "tee_stdout"
            /\ sys_stderr' = "tee_stderr"
            /\ sys_excepthook' = wrap_excepthook(<<"ipython_excepthook">>)
            /\ sys_displayhook' = wrap_displayhook(<<"ipython_displayhook">>)
            /\ Goto(<<Ev("initialize", "app", connection_file[c], 0, 0)>>, "kernel")
    /\ UNCHANGED <<consts, ida_ios, _ida_closed, controller, timers, running, callback>>

\* start(), lines 113-149: the IPKernelApp singleton is obtained, or created and
\* initialized.  Initializing overrides sys.stdout and sys.stderr with
\* IDATeeOutStream instances, the two hooks with IPython's and the main module
\* registered in sys.modules with IPython's; start() then puts back the main
\* module that was registered, if one was, and wraps the hooks.
StartEngine(c) ==
    /\ pc = At("start", c, "engine")
    /\ IF app_initialized
       THEN /\ UNCHANGED <<streams, sys_main, hooks, engine>>
            /\ Goto(<<>>, "kernel")
       ELSE /\ app_initialized' = TRUE
            /\ sys_main' = IF sys_main # None THEN sys_main ELSE "ipython_main"
            /\ app_connection_file' =
                  IF connection_file[c] # None THEN connection_file[c] ELSE FreshConnection
            /\ sys_stdout' = "tee_stdout"
            /\ sys_stderr' = "tee_stderr"
            /\ sys_excepthook' = wrap_excepthook(<<"ipython_excepthook">>)
            /\ sys_displayhook' = wrap_displayhook(<<"ipython_displayhook">>)
            /\ Goto(<<Ev("initialize", "app", connection_file[c], 0, 0)>>, "kernel")
    /\ UNCHANGED <<consts, ida_ios, _ida_closed, controller, timers, running, callback>>

\* The kernel step of start() without recording app.connection_file.
StartKernel_no_record(c) ==
    /\ pc = At("start", c, "kernel")
    /\ connection_file' = connection_file
    /\ LET w == stream_write(sys_stdout, Banner)
           evs == <<Ev("kernel.start", "app", None, 0, 0)>> \o w.ev
       IN  IF w.raised
           THEN Return(evs, "I/O operation on closed file")
           ELSE Goto(evs, "runloop")
    /\ UNCHANGED <<consts, modules, _ida_closed, streams, hooks, engine, _timer, timers, running, callback>>

\* start(), lines 151-157: the kernel is started, the connection file recorded
\* and printed on the active sys.stdout.
StartKernel(c) ==
    /\ pc = At("start", c, "kernel")
    /\ connection_file' = [connection_file EXCEPT ![c] = app_connection_file]
    /\ LET w == stream_write(sys_stdout, Banner)
           evs == <<Ev("kernel.start", "app", None, 0, 0)>> \o w.ev
       IN  IF w.raised
           THEN Return(evs, "I/O operation on closed file")
           ELSE Goto(evs, "runloop")
    /\ UNCHANGED <<consts, modules, _ida_closed, streams, hooks, engine, _timer, timers, running, callback>>

\* The run-loop step of start() without the immediate iteration.
StartRunLoop_no_iteration(c) ==
    /\ pc = At("start", c, "runloop")
    /\ IF ~ipykernel5
       THEN LET h == NewHandle
            IN  /\ timers' = register_timer(poll_ms, h)
                /\ _timer' = [_timer EXCEPT ![c] = h]
                /\ Return(<<Ev("register_timer", "idaapi", None, h, poll_ms)>>, None)
       ELSE /\ UNCHANGED <<timers, _timer>>
            /\ Return(<<>>, None)
    /\ running' = [running EXCEPT ![c] = TRUE]
    /\ UNCHANGED <<consts, modules, _ida_closed, streams, hooks, engine, connection_file, callback>>

\* The run-loop step of start() registering the timer whatever the ipykernel.
StartRunLoop_always_timer(c) ==
    /\ pc = At("start", c, "runloop")
    /\ LET h == NewHandle
       IN  /\ timers' = register_timer(poll_ms, h)
           /\ _timer' = [_timer EXCEPT ![c] = h]
           /\ Return(<<Ev("do_one_iteration", "app", None, 0, 0),
                       Ev("register_timer", "idaapi", None, h, poll_ms)>>, None)
    /\ running' = [running EXCEPT ![c] = TRUE]
    /\ UNCHANGED <<consts, modules, _ida_closed, streams, hooks, engine, connection_file, callback>>

\* The run-loop step of start() doing the immediate iteration whatever the
\* ipykernel.
StartRunLoop_iterates_always(c) ==
    /\ pc = At("start", c, "runloop")
    /\ IF ~ipykernel5
       THEN LET h == NewHandle
            IN  /\ timers' = register_timer(poll_ms, h)
                /\ _timer' = [_timer EXCEPT ![c] = h]
                /\ Return(<<Ev("do_one_iteration", "app", None, 0, 0),
                            Ev("register_timer", "idaapi", None, h, poll_ms)>>, None)
       ELSE /\ UNCHANGED <<timers, _timer>>
            /\ Return(<<Ev("do_one_iteration", "app", None, 0, 0)>>, None)
    /\ running' = [running EXCEPT ![c] = TRUE]
    /\ UNCHANGED <<consts, modules, _ida_closed, streams, hooks, engine, connection_file, callback>>

\* start(), lines 159-165: without ipykernel 5, one iteration now and a timer
\* for the next ones.
StartRunLoop(c) ==
    /\ pc = At("start", c, "runloop")
    /\ IF ~ipykernel5
       THEN LET h == NewHandle
            IN  /\ timers' = register_timer(poll_ms, h)
                /\ _timer' = [_timer EXCEPT ![c] = h]
                /\ Return(<<Ev("do_one_iteration", "app", None, 0, 0),
                            Ev("register_timer", "idaapi", None, h, poll_ms)>>, None)
       ELSE /\ UNCHANGED <<timers, _timer>>
            /\ Return(<<>>, None)
    /\ running' = [running EXCEPT ![c] = TRUE]
    /\ UNCHANGED <<consts, modules, _ida_closed, streams, hooks, engine, connection_file, callback>>

\* The first step of stop() forgetting the timer without unregistering it.
StopCall_no_unregister(c) ==
    /\ pc = Idle
    /\ last' = Last("stop", c, None, None, None)
    /\ pre' = Snapshot
    /\ timers' = timers
    /\ events' = <<>>
    /\ _timer' = [_timer EXCEPT ![c] = NoTimer]
    /\ running' = [running EXCEPT ![c] = FALSE]
    /\ pc' = At("stop", c, "restore")
    /\ UNCHANGED <<consts, modules, _ida_closed, streams, hooks, engine, connection_file, callback>>

\* stop(), lines 170-172: the timer is unregistered and forgotten.
StopCall(c) ==
    /\ pc = Idle
    /\ last' = Last("stop", c, None, None, None)
    /\ pre' = Snapshot
    /\ IF _timer[c] # NoTimer
       THEN /\ timers' = unregister_timer(_timer[c])
            /\ events' = <<Ev("unregister_timer", "idaapi", None, _timer[c], 0)>>
       ELSE /\ timers' = timers
            /\ events' = <<>>
    /\ _timer' = [_timer EXCEPT ![c] = NoTimer]
    /\ running' = [running EXCEPT ![c] = FALSE]
    /\ pc' = At("stop", c, "restore")
    /\ UNCHANGED <<consts, modules, _ida_closed, streams, hooks, engine, connection_file, callback>>

\* The end of stop() restoring sys.stdout only.
StopRestore_stdout_only(c) ==
    /\ pc = At("stop", c, "restore")
    /\ connection_file' = [connection_file EXCEPT ![c] = None]
    /\ sys_stdout' = _ida_stdout
    /\ sys_stderr' = sys_stderr
    /\ Return(<<>>, None)
    /\ UNCHANGED <<consts, modules, _ida_closed, hooks, engine, _timer, timers, running, callback>>

\* stop(), lines 173-175: the connection file is forgotten, the streams restored.
StopRestore(c) ==
    /\ pc = At("stop", c, "restore")
    /\ connection_file' = [connection_file EXCEPT ![c] = None]
    /\ sys_stdout' = _ida_stdout
    /\ sys_stderr' = _ida_stderr
    /\ Return(<<>>, None)
    /\ UNCHANGED <<consts, modules, _ida_closed, hooks, engine, _timer, timers, running, callback>>

\* ------------------------------------------------------------- run loop

\* ipython_kernel_iteration, line 163: IDA runs the callback of a registered
\* timer, which starts an iteration of the kernel.  What the kernel runs in the
\* iteration may call start() and stop(); the other calls are followed between
\* callbacks only (callback = NoTimer), where they do the same.
TimerBegin(h) ==
    /\ pc = Idle
    /\ callback = NoTimer
    /\ \E t \in timers : t[1] = h
    /\ callback' = h
    /\ last' = Last("ipython_kernel_iteration", 0, None, None, None)
    /\ events' = <<Ev("do_one_iteration", "app", None, h, 0)>>
    /\ pre' = Snapshot
    /\ UNCHANGED <<consts, modules, _ida_closed, streams, hooks, engine, controller, timers, pc, running>>

\* The end of ipython_kernel_iteration returning the poll interval unscaled.
TimerEnd_returns_seconds ==
    /\ pc = Idle
    /\ callback # NoTimer
    /\ LET ret == _poll_interval \div 1000000
       IN  /\ timers' = IF \E t \in timers : t[1] = callback
                        THEN {t \in timers : t[1] # callback} \cup {<<callback, ret>>}
                        ELSE timers
           /\ events' = <<Ev("do_one_iteration", "app", None, callback, 0),
                          Ev("return", "idaapi", None, callback, ret)>>
    /\ callback' = NoTimer
    /\ last' = Last("ipython_kernel_iteration", 0, None, None, None)
    /\ pre' = Snapshot
    /\ UNCHANGED <<consts, modules, _ida_closed, streams, hooks, engine, controller, pc, running>>

\* ipython_kernel_iteration, line 164: the iteration is over and the callback
\* returns the interval; IDA runs the timer again after it if it is still
\* registered.
TimerEnd ==
    /\ pc = Idle
    /\ callback # NoTimer
    /\ LET ret == poll_ms
       IN  /\ timers' = IF \E t \in timers : t[1] = callback
                        THEN {t \in timers : t[1] # callback} \cup {<<callback, ret>>}
                        ELSE timers
           /\ events' = <<Ev("do_one_iteration", "app", None, callback, 0),
                          Ev("return", "idaapi", None, callback, ret)>>
    /\ callback' = NoTimer
    /\ last' = Last("ipython_kernel_iteration", 0, None, None, None)
    /\ pre' = Snapshot
    /\ UNCHANGED <<consts, modules, _ida_closed, streams, hooks, engine, controller, pc, running>>

\* do_one_iteration() without the ipykernel 5 check.
do_one_iteration_unchecked ==
    /\ pc = Idle
    /\ callback = NoTimer
    /\ pre' = Snapshot
    /\ IF app_initialized
       THEN /\ last' = Last("do_one_iteration", 0, None, None, None)
            /\ events' = <<Ev("do_one_iteration", "app", None, 0, 0)>>
       ELSE /\ last' = Last("do_one_iteration", 0, None, None, "Kernel is not initialized")
            /\ events' = <<>>
    /\ UNCHANGED <<consts, modules, _ida_closed, streams, hooks, engine, controller, timers, pc, running, callback>>

\* The module's do_one_iteration().
do_one_iteration ==
    /\ pc = Idle
    /\ callback = NoTimer
    /\ pre' = Snapshot
    /\ IF ipykernel5
       THEN /\ last' = Last("do_one_iteration", 0, None, None,
                            "Should not call this when ipykernel >= 5")
            /\ events' = <<>>
       ELSE IF app_initialized
       THEN /\ last' = Last("do_one_iteration", 0, None, None, None)
            /\ events' = <<Ev("do_one_iteration", "app", None, 0, 0)>>
       ELSE /\ last' = Last("do_one_iteration", 0, None, None, "Kernel is not initialized")
            /\ events' = <<>>
    /\ UNCHANGED <<consts, modules, _ida_closed, streams, hooks, engine, controller, timers, pc, running, callback>>

\* ------------------------------------------------------------ specification

Next ==
    \/ \E c \in Controllers : StartCall(c)
    \/ \E c \in Controllers : StartEngine(c)
    \/ \E c \in Controllers : StartKernel(c)
    \/ \E c \in Controllers : StartRunLoop(c)
    \/ \E c \in Controllers : StopCall(c)
    \/ \E c \in Controllers : StopRestore(c)
    \/ \E h \in Handles : TimerBegin(h)
    \/ TimerEnd
    \/ do_one_iteration
    \/ \E name \in {"stdout", "stderr"}, string \in Strings : TeeWrite(name, string)
    \/ \E name \in {"stdout", "stderr"} : SetupRedirectsCall(name)
    \/ \E raises \in BOOLEAN : SetupRedirectsSuper(raises)
    \/ \E sink \in {"ida_stdout", "ida_stderr"} : CloseSink(sink)
    \/ \E args \in HookArgs, hostRaises \in BOOLEAN : ExceptHook(args, hostRaises)
    \/ \E args \in HookArgs, hostRaises \in BOOLEAN : DisplayHook(args, hostRaises)

Spec == Init /\ [][Next]_vars

\* ------------------------------------------------------------------ claims

\* The saved IDA sink of a Stream Tee's role.
SavedSink(name) == IF name = "stdout" THEN _ida_stdout ELSE _ida_stderr

\* The callees of the events of the call, in order.
Callees == [i \in 1..Len(events) |-> events[i].to]

IsRunLoopEvent(e) == e.k \in {"do_one_iteration", "register_timer"}

\* What a call must leave alone to have changed nothing of the controllers, the
\* scheduler, the streams, the hooks and the engine.
Untouched ==
    /\ _timer = pre._timer
    /\ connection_file = pre.connection_file
    /\ timers = pre.timers
    /\ sys_stdout = pre.sys_stdout
    /\ sys_stderr = pre.sys_stderr
    /\ sys_excepthook = pre.sys_excepthook
    /\ sys_displayhook = pre.sys_displayhook
    /\ app_initialized = pre.app_initialized
    /\ app_connection_file = pre.app_connection_file

\* C1: a start() on a controller that was started successfully and not stopped
\* since raises "already running" and changes nothing.
C1_SecondStartRaises ==
    (last.op = "start" /\ pre.running[last.c]) =>
        /\ pc = Idle
        /\ last.raised = "IPython kernel is already running."
        /\ events = <<>>
        /\ Untouched

\* C2: when a stop() has returned, sys.stdout and sys.stderr are the objects
\* saved at module load.
C2_StopRestoresStreams ==
    (pc = Idle /\ last.op = "stop") =>
        /\ sys_stdout = _ida_stdout
        /\ sys_stderr = _ida_stderr

\* A stop() of a running controller returned, entered with both streams teed.
C2_Witness ==
    /\ pc = Idle
    /\ last.op = "stop"
    /\ pre.running[last.c]
    /\ pre.sys_stdout = "tee_stdout"
    /\ pre.sys_stderr = "tee_stderr"
    /\ _ida_stdout # None
    /\ _ida_stderr # None

\* C3: a stop() of a controller that is stopped (never started, or stopped
\* since) does not raise and changes nothing but the active streams.
C3_StopWhenStoppedChangesNothing ==
    (pc = Idle /\ last.op = "stop"
        /\ ~pre.running[last.c] /\ pre._timer[last.c] = NoTimer) =>
        /\ last.raised = None
        /\ _timer = pre._timer
        /\ connection_file = pre.connection_file
        /\ timers = pre.timers
        /\ sys_excepthook = pre.sys_excepthook
        /\ sys_displayhook = pre.sys_displayhook
        /\ app_initialized = pre.app_initialized
        /\ app_connection_file = pre.app_connection_file

\* C4: the engine is bound to the connection file of the environment when there
\* is one, and to a fresh one only when there is none.
C4_EngineBoundToEnvironment ==
    app_initialized =>
        app_connection_file =
            IF JUPYTER_CONNECTION # None THEN JUPYTER_CONNECTION ELSE FreshConnection

\* C5: a write through the Stream Tee of a role whose saved IDA sink is there
\* and alive does exactly two things: the string to that sink, then the string
\* to the client; nothing goes to the other role's sink.
C5_TeeWritesHostThenClient ==
    (last.op = "write" /\ SavedSink(last.to) # None
        /\ SavedSink(last.to) \notin pre._ida_closed) =>
        /\ last.raised = None
        /\ events = << Ev("write", SavedSink(last.to), last.s, 0, 0),
                       Ev("write", Client(last.to), last.s, 0, 0) >>

\* A write through the standard-error Tee reached IDA's stderr and the client.
C5_Witness ==
    /\ last.op = "write"
    /\ last.to = "stderr"
    /\ _ida_stderr # None
    /\ _ida_stderr \notin pre._ida_closed
    /\ Len(events) = 2
    /\ events[1].to = "ida_stderr"

\* C6: a write through the Stream Tee whose saved IDA sink has gone stale does
\* not raise, and the string reaches the client.
C6_StaleSinkWriteSucceeds ==
    (last.op = "write" /\ SavedSink(last.to) \in pre._ida_closed) =>
        /\ last.raised = None
        /\ \E i \in 1..Len(events) :
              events[i] = Ev("write", Client(last.to), last.s, 0, 0)

\* C7: a call of a wrapped hook calls IDA's hook and IPython's hook with the
\* arguments, whether or not IDA's hook raises.
C7_BothHooksCalled ==
    /\ (last.op = "excepthook" /\ Len(pre.sys_excepthook) > 1) =>
          /\ \E i \in 1..Len(events) : events[i] = Ev("call", "_ida_excepthook", last.s, 0, 0)
          /\ \E i \in 1..Len(events) : events[i] = Ev("call", "ipython_excepthook", last.s, 0, 0)
    /\ (last.op = "displayhook" /\ Len(pre.sys_displayhook) > 1) =>
          /\ \E i \in 1..Len(events) : events[i] = Ev("call", "_ida_displayhook", last.s, 0, 0)
          /\ \E i \in 1..Len(events) : events[i] = Ev("call", "ipython_displayhook", last.s, 0, 0)

\* C8: without ipykernel 5, a start() that returns has done exactly one
\* iteration and then exactly one register_timer, with the poll interval in
\* whole milliseconds, and holds the handle register_timer returned.
C8_StartIteratesThenRegisters ==
    (pc = Idle /\ last.op = "start" /\ last.raised = None /\ ~ipykernel5) =>
        LET run == SelectSeq(events, IsRunLoopEvent)
        IN  /\ pre._timer[last.c] = NoTimer
            /\ Len(run) = 2
            /\ run[1].k = "do_one_iteration"
            /\ run[2].k = "register_timer"
            /\ 1000 * run[2].n <= _poll_interval
            /\ _poll_interval < 1000 * (run[2].n + 1)
            /\ run[2].h \in Handles
            /\ _timer[last.c] = run[2].h
            /\ timers = pre.timers \cup {<<run[2].h, run[2].n>>}
            /\ <<run[2].h, run[2].n>> \notin pre.timers

\* A start() returned without ipykernel 5, with a 2.5 ms poll interval.
C8_Witness ==
    /\ pc = Idle
    /\ last.op = "start"
    /\ last.raised = None
    /\ ~ipykernel5
    /\ _poll_interval = 2500
    /\ started(last.c)
    /\ Len(events) >= 2

\* C9: do_one_iteration() raises with ipykernel 5, raises "Kernel is not
\* initialized" without an initialized engine, and otherwise does exactly one
\* iteration; when it raises it has done and changed nothing.
C9_DoOneIteration ==
    (last.op = "do_one_iteration") =>
        /\ Untouched
        /\ IF ipykernel5
           THEN last.raised = "Should not call this when ipykernel >= 5" /\ events = <<>>
           ELSE IF ~pre.app_initialized
           THEN last.raised = "Kernel is not initialized" /\ events = <<>>
           ELSE /\ last.raised = None
                /\ events = <<Ev("do_one_iteration", "app", None, 0, 0)>>

\* do_one_iteration() raised with ipykernel 5 and an initialized engine.
C9_Witness ==
    /\ last.op = "do_one_iteration"
    /\ ipykernel5
    /\ app_initialized
    /\ last.raised # None

\* C10: started is true exactly of the controllers that hold a timer handle,
\* and with ipykernel 5 no timer is registered and started is false throughout.
C10_StartedIffTimer ==
    /\ \A c \in Controllers : started(c) <=> _timer[c] \in Handles
    /\ ipykernel5 => (timers = {} /\ \A c \in Controllers : ~started(c))

\* With ipykernel 5, a start() returned and started is false.
C10_Witness ==
    /\ ipykernel5
    /\ pc = Idle
    /\ last.op = "start"
    /\ last.raised = None
    /\ running[last.c]
    /\ ~started(last.c)


\* C11: in every state, between calls and inside start() and stop(), a
\* controller that holds a timer handle has a connection file.
C11_TimerImpliesConnection ==
    \A c \in Controllers : _timer[c] # NoTimer => connection_file[c] # None

\* Inside a stop(): the timer of the controller is forgotten, its connection
\* file not yet, while another controller holds a timer and a connection file.
C11_Witness ==
    /\ pc.op = "stop"
    /\ pc.at = "restore"
    /\ pre._timer[pc.c] # NoTimer
    /\ connection_file[pc.c] # None
    /\ \E c \in Controllers : c # pc.c /\ _timer[c] # NoTimer /\ connection_file[c] # None


\* The app.initialize calls of the call.
Initializations == {i \in 1..Len(events) : events[i].k = "initialize"}

\* C12: the engine is initialized at most once and each hook wrapped at most
\* once; no call, stop() included, changes the hooks or the engine once the
\* engine exists; every start() that returns has recorded the engine's one
\* connection file.
C12_EngineAndHooksOnce ==
    /\ Len(sys_excepthook) <= 2
    /\ Len(sys_displayhook) <= 2
    /\ Cardinality(Initializations) <= 1
    /\ pre.app_initialized =>
          /\ Initializations = {}
          /\ app_initialized
          /\ app_connection_file = pre.app_connection_file
          /\ sys_excepthook = pre.sys_excepthook
          /\ sys_displayhook = pre.sys_displayhook
    /\ (pc = Idle /\ last.op = "start" /\ last.raised = None) =>
          connection_file[last.c] = app_connection_file

\* A start() returned on a controller that had been stopped, with the engine
\* there already: the hooks have their one link and the file is the engine's.
C12_Witness ==
    /\ pc = Idle
    /\ last.op = "start"
    /\ last.raised = None
    /\ pre.app_initialized
    /\ JUPYTER_CONNECTION # None
    /\ pre.connection_file[last.c] = None
    /\ Len(sys_excepthook) = 2
    /\ Len(sys_displayhook) = 2
    /\ connection_file[last.c] = app_connection_file

\* C13: a call of a hook start() installed calls IDA's saved hook and then
\* IPython's hook, each once, with the arguments of the call.
C13_HostHookThenEngineHook ==
    /\ (last.op = "excepthook" /\ pre.app_initialized) =>
          events = << Ev("call", "_ida_excepthook", last.s, 0, 0),
                      Ev("call", "ipython_excepthook", last.s, 0, 0) >>
    /\ (last.op = "displayhook" /\ pre.app_initialized) =>
          events = << Ev("call", "_ida_displayhook", last.s, 0, 0),
                      Ev("call", "ipython_displayhook", last.s, 0, 0) >>


\* The timers registered with IDA under a handle.
Registered(h) == {t \in timers : t[1] = h}

\* The controllers that hold a timer handle.
Holders == {c \in Controllers : started(c)}

\* C14: without ipykernel 5, in every state each controller that holds a
\* handle has exactly one timer registered, under that handle and no other
\* controller's, and nothing else is registered; a callback IDA starts is the
\* callback of a timer some controller holds.
C14_RegistrationsAreHeld ==
    ~ipykernel5 =>
        /\ \A c \in Controllers :
              Cardinality(Registered(_timer[c])) = IF started(c) THEN 1 ELSE 0
        /\ \A c, d \in Holders : _timer[c] = _timer[d] => c = d
        /\ {t[1] : t \in timers} = {_timer[c] : c \in Holders}
        /\ Cardinality(timers) = Cardinality(Holders)
        /\ (last.op = "ipython_kernel_iteration" /\ callback # NoTimer) =>
              \E c \in Controllers : pre._timer[c] = callback

\* A stop() returned that unregistered its timer while the other controller's
\* timer stays registered.
C14_Witness ==
    /\ ~ipykernel5
    /\ pc = Idle
    /\ last.op = "stop"
    /\ pre._timer[last.c] # NoTimer
    /\ Registered(pre._timer[last.c]) = {}
    /\ Cardinality(timers) = 1
    /\ Cardinality(pre.timers) = 2

\* C15: with ipykernel 5 no call does an iteration or registers a timer and no
\* timer callback runs; without it every start() that returns has registered
\* its timer; a running controller holds a timer exactly when the process is
\* without ipykernel 5.
C15_StrategiesNotMixed ==
    /\ ipykernel5 =>
          /\ timers = {}
          /\ callback = NoTimer
          /\ \A i \in 1..Len(events) :
                events[i].k \notin {"do_one_iteration", "register_timer", "return"}
    /\ (~ipykernel5 /\ pc = Idle /\ last.op = "start" /\ last.raised = None) =>
          /\ \E i \in 1..Len(events) : events[i].k = "register_timer"
          /\ Registered(_timer[last.c]) # {}
    /\ \A c \in Controllers : running[c] => (started(c) <=> ~ipykernel5)

\* With ipykernel 5, a start() returned while the other controller is running:
\* the kernel was started and nothing else.
C15_Witness ==
    /\ ipykernel5
    /\ pc = Idle
    /\ last.op = "start"
    /\ last.raised = None
    /\ \A c \in Controllers : running[c]
    /\ \E i \in 1..Len(events) : events[i].k = "kernel.start"

\* C16: a timer callback that has returned did exactly one iteration and
\* returned the poll interval in whole milliseconds, the interval the timer was
\* registered with, and a timer still registered runs again after it; a stop()
\* leaves a callback in flight as it is and the timer it unregistered is not
\* registered again when that callback returns.
C16_CallbackIteratesOnce ==
    /\ (last.op = "ipython_kernel_iteration" /\ callback = NoTimer) =>
          /\ Len(events) = 2
          /\ events[1].k = "do_one_iteration"
          /\ events[2].k = "return"
          /\ events[2].h = events[1].h
          /\ 1000 * events[2].n <= _poll_interval
          /\ _poll_interval < 1000 * (events[2].n + 1)
          /\ \A t \in Registered(events[2].h) \cup {u \in pre.timers : u[1] = events[2].h} :
                t[2] = events[2].n
          /\ Registered(events[2].h) = {u \in pre.timers : u[1] = events[2].h}
    /\ (last.op = "stop" /\ pre.callback # NoTimer) => callback = pre.callback
    /\ (last.op = "stop" /\ pre._timer[last.c] # NoTimer) =>
          Registered(pre._timer[last.c]) = {}

\* The callback of a timer returned after a stop() had unregistered the timer
\* while the callback was running.
C16_Witness ==
    /\ last.op = "ipython_kernel_iteration"
    /\ callback = NoTimer
    /\ Len(events) = 2
    /\ events[2].n = 2
    /\ Registered(events[2].h) = {}


\* C17: while OutStream's _setup_stream_redirects runs, sys.stdout and
\* sys.stderr are the streams __main__ saved before IDAPython's; when the call
\* is over, returned or raised, they are the streams that were active before it.
C17_RedirectSetupRestoresStreams ==
    /\ pc.op = "_setup_stream_redirects" =>
          /\ sys_stdout = "_orig_stdout"
          /\ sys_stderr = "_orig_stderr"
    /\ (pc = Idle /\ last.op = "_setup_stream_redirects") =>
          /\ events = <<Ev("_setup_stream_redirects", "_orig_stdout", "_orig_stderr", 0, 0)>>
          /\ sys_stdout = pre.sys_stdout
          /\ sys_stderr = pre.sys_stderr

\* OutStream's _setup_stream_redirects raised with the Stream Tees active.
C17_Witness ==
    /\ pc = Idle
    /\ last.op = "_setup_stream_redirects"
    /\ last.raised # None
    /\ pre.sys_stdout = "tee_stdout"
    /\ pre.sys_stderr = "tee_stderr"
    /\ sys_stdout = "tee_stdout"

====
